---------------------------- MODULE Spec2Model ----------------------------
(***************************************************************************)
(* Model of FuelTableCAN-Serial.cpp: the tilt-table test sequencer         *)
(* (setup/loop), the six pitch-controller routines, the telemetry streamer *)
(* (streamCSVData) and the CAN reader (readCANData).                       *)
(*                                                                         *)
(* Pitch values are exact rationals: a pitch p degrees is stored as the    *)
(* integer p * 32768 * 10, so that the decoded value raw/32768*180 is      *)
(* raw*1800 and every threshold of the code (0.1, 4.9, 5.1, ..., 25.0,     *)
(* -999.0) is an integer.                                                  *)
(*                                                                         *)
(* Time: the code's busy-wait windows are followed at the DATA_INTERVAL    *)
(* cadence; computation takes no time, delay(d) takes exactly d.  Clocks   *)
(* are kept relative (time since adjustStartTime, since lastDataTime,      *)
(* since startTime, since lastCanMsgTime).  startTime and lastCanMsgTime   *)
(* influence nothing but the TimeMS column and the diagnostic staleness    *)
(* warning; they are followed in the scenarios marked timed and held at 0  *)
(* in the others.                                                          *)
(***************************************************************************)
EXTENDS Integers, Sequences, FiniteSets, TLC

VARIABLES
  pc,              \* position of the single thread of control
  op,              \* controller routine being (or last) executed
  pitch,           \* local `pitch` of the running controller routine
  timeoutCounter,  \* local `timeoutCounter` of the running routine
  motor,           \* state of the L298N pins: "stopped" | "forward" | "backward"
  isMoving,        \* global flag isMoving
  testComplete,    \* global flag testComplete
  headersWritten,  \* global flag headersWritten
  winElapsed,      \* millis() - adjustStartTime (or dwell start) in a window
  sinceData,       \* millis() - lastDataTime, saturating at DATA_INTERVAL
  burstI,          \* loop index i of the final "Complete" burst
  lastValidData,   \* static CANData lastValidData of readCANData
  canData,         \* value returned by the last readCANData call (<<>> before)
  canRx,           \* frames pending in the CAN controller's receive buffer
  serialIn,        \* command lines pending on the operator serial port
  sensor,          \* behaviour of the angle source: "free" | "ideal" | "lost"
  angle,           \* raw angle the platform is at (used by the ideal source)
  busOn,           \* whether the bus delivers frames in this scenario
  operatorOn,      \* whether the operator sends commands in this scenario
  emitted,         \* lines written to Serial by the last program step
  streamPitch,     \* sample read by streamCSVData in the last program step
  lastTag,         \* phase of the last record written in this run
  hdrCount,        \* header lines written in this run (saturating at 2)
  outcome,         \* how the running routine ended
  reads,           \* readPitch calls made by the current acquisition loop
  waited,          \* ms spent in delay(10) by the current acquisition loop
  opCmds,          \* actuator commands issued inside the routine (saturating)
  allBad,          \* every poll of the running routine was unusable so far
  resetFromRun,    \* the last accepted reset had arrived during a run
  hCalls,          \* harness: streamCSVData calls made
  hValid,          \* harness: calls whose sample was valid and in envelope
  hRecords,        \* harness: records written
  hAlt,            \* harness: the samples alternated usable/unusable so far
  hMsg,            \* harness: frame read by the last readCANData call
  hPrev,           \* harness: lastValidData before the last readCANData call
  timed,           \* whether this scenario follows startTime/lastCanMsgTime
  canAge,          \* millis() - lastCanMsgTime, saturating above STALE_MS
  sinceStart,      \* millis() - startTime, saturating at MaxElapsed
  warned,          \* the last program step wrote the staleness warning
  streamArgs,      \* <<phase, direction>> of the last step's streamCSVData call
  burstCalls,      \* streamCSVData calls made by the final burst so far
  polls,           \* readPitch calls answered by the scripted angle source
  wtBuf,           \* bytes pending on WT901_SERIAL
  hRet,            \* harness: value returned by the last readPitch call
  hBuf,            \* harness: <<wtBuf before the call>> if the last step was a
                   \* readPitch call, else <<>>
  lastCallMs       \* millis() - startTime at the last streamCSVData call since
                   \* setup() was entered (-1: none yet; timed scenarios only)

vars == <<pc, op, pitch, timeoutCounter, motor, isMoving, testComplete,
          headersWritten, winElapsed, sinceData, burstI, lastValidData,
          canData, canRx, serialIn, sensor, angle, busOn, operatorOn,
          emitted, streamPitch, lastTag, hdrCount, outcome, reads, waited,
          opCmds, allBad, resetFromRun, hCalls, hValid, hRecords, hAlt,
          hMsg, hPrev, timed, canAge, sinceStart, warned, streamArgs,
          burstCalls, polls, wtBuf, hRet, hBuf, lastCallMs>>

progVars == <<pc, op, pitch, timeoutCounter, motor, isMoving, testComplete,
              headersWritten, winElapsed, sinceData, burstI>>
harnessVars == <<hCalls, hValid, hRecords, hAlt, hMsg, hPrev, wtBuf, hRet,
                 hBuf>>
clockVars == <<canAge, sinceStart, warned, lastCallMs>>
burstGhost == <<burstCalls>>

(***************************************************************************)
(* Program constants                                                       *)
(***************************************************************************)
DATA_INTERVAL == 10
maxTimeout == 1000
RETRY_DELAY == 10
PULSE_MS == 200
STABILIZE_MS == 1000
DWELL_MS == 10000
BURST_COUNT == 100
BURST_DELAY == 10
PITCH_DIV == 32768
MIN_CAN_LEN == 6
STALE_MS == 60000
IDLE_DELAY == 100
SETUP_DELAY == 100
FRAME_LEN == 11

(***************************************************************************)
(* Bounds of the model                                                     *)
(***************************************************************************)
MaxPending == 1     \* frames the receive buffer holds in the model
MaxInput == 1       \* command lines the serial buffer holds in the model
MaxCmds == 2        \* saturation of opCmds
MaxCalls == 6       \* streamCSVData calls made by the streamer harness
MaxElapsed == 110000 \* saturation of sinceStart (a run lasts at most 101 s)
ScriptPolls == 3    \* polls the scripted angle source answers with its first value
MaxWt == 12         \* bytes WT901_SERIAL holds in the readPitch harness

(***************************************************************************)
(* Pitch arithmetic                                                        *)
(***************************************************************************)
\* x tenths of a degree, in the model's unit (1/(32768*10) degree)
Tenths(x) == x * PITCH_DIV
\* readPitch's decode: pitch_raw / 32768.0 * 180.0
Decode(raw) == raw * 1800
\* the "no sample" value -999.0
NoPitch == Tenths(-9990)
\* pitch == -999.0 || pitch < -25.0 || pitch > 25.0
InvalidPitchSentinelOnly(p) == p = NoPitch
InvalidPitch(p) == p = NoPitch \/ p < Tenths(-250) \/ p > Tenths(250)

\* the acquisition loops' budget test: timeoutCounter < maxTimeout
BudgetLeftOffByOne(n) == n <= maxTimeout
BudgetLeft(n) == n < maxTimeout

\* a sample the specification lets the controller and the streamer act on:
\* a decoded frame whose angle lies in [-25, 25]
Usable(s) == s # NoPitch /\ Tenths(-250) <= s /\ s <= Tenths(250)

Min(a, b) == IF a < b THEN a ELSE b
Abs(x) == IF x < 0 THEN -x ELSE x

\* Serial.print(pitch, 2): sign, then |pitch| rounded half up to hundredths
Fmt2(p) == [neg |-> p < 0,
            cents |-> (Abs(p) * 200 + 10 * PITCH_DIV) \div (20 * PITCH_DIV)]

(***************************************************************************)
(* The controller routines, parametrised by the routine's name             *)
(***************************************************************************)
Ops == {"zero", "pos5", "neg5", "pos10", "neg10", "ret"}
AdjustOps == {"pos5", "neg5", "pos10", "neg10"}

\* the routine's while condition: the sample is outside the tolerance band
OutOfBandBelow(o, p) ==
  CASE o \in {"zero", "ret"} -> Abs(p) > Tenths(1)
    [] o = "pos5"  -> p < Tenths(49)
    [] o = "pos10" -> p < Tenths(99)
    [] o = "neg5"  -> p < Tenths(-51)
    [] o = "neg10" -> p < Tenths(-101)
OutOfBandWide(o, p) ==
  CASE o \in {"zero", "ret"} -> Abs(p) > Tenths(2)
    [] o = "pos5"  -> p < Tenths(48) \/ p > Tenths(52)
    [] o = "pos10" -> p < Tenths(98) \/ p > Tenths(102)
    [] o = "neg5"  -> p < Tenths(-52) \/ p > Tenths(-48)
    [] o = "neg10" -> p < Tenths(-102) \/ p > Tenths(-98)
OutOfBand(o, p) ==
  CASE o \in {"zero", "ret"} -> Abs(p) > Tenths(1)
    [] o = "pos5"  -> p < Tenths(49) \/ p > Tenths(51)
    [] o = "pos10" -> p < Tenths(99) \/ p > Tenths(101)
    [] o = "neg5"  -> p < Tenths(-51) \/ p > Tenths(-49)
    [] o = "neg10" -> p < Tenths(-101) \/ p > Tenths(-99)

\* the motor command issued at the top of a control cycle (m: current pins)
DriveSwapped(o, p, m) ==
  CASE o \in {"zero", "ret"} -> IF p > 0 THEN "forward" ELSE "backward"
    [] o = "pos5"  -> IF p > Tenths(51) THEN "forward"
                      ELSE IF p < Tenths(49) THEN "backward" ELSE m
    [] o = "pos10" -> IF p > Tenths(101) THEN "backward"
                      ELSE IF p < Tenths(99) THEN "forward" ELSE m
    [] o = "neg5"  -> IF p < Tenths(-51) THEN "backward"
                      ELSE IF p > Tenths(-49) THEN "forward" ELSE m
    [] o = "neg10" -> IF p < Tenths(-101) THEN "backward"
                      ELSE IF p > Tenths(-99) THEN "forward" ELSE m
Drive(o, p, m) ==
  CASE o \in {"zero", "ret"} -> IF p > 0 THEN "forward" ELSE "backward"
    [] o = "pos5"  -> IF p > Tenths(51) THEN "forward"
                      ELSE IF p < Tenths(49) THEN "backward" ELSE m
    [] o = "pos10" -> IF p > Tenths(101) THEN "forward"
                      ELSE IF p < Tenths(99) THEN "backward" ELSE m
    [] o = "neg5"  -> IF p < Tenths(-51) THEN "backward"
                      ELSE IF p > Tenths(-49) THEN "forward" ELSE m
    [] o = "neg10" -> IF p < Tenths(-101) THEN "backward"
                      ELSE IF p > Tenths(-99) THEN "forward" ELSE m

\* direction label of the records streamed in the pulse window
PulseLabelSwapped(o, p) ==
  CASE o \in {"zero", "ret"} -> IF p > 0 THEN "Down" ELSE "Up"
    [] o = "pos5"  -> IF p > Tenths(51) THEN "Down" ELSE "Up"
    [] o = "pos10" -> IF p > Tenths(101) THEN "Down" ELSE "Up"
    [] o = "neg5"  -> IF p < Tenths(-51) THEN "Down" ELSE "Up"
    [] o = "neg10" -> IF p < Tenths(-101) THEN "Up" ELSE "Down"
PulseLabel(o, p) ==
  CASE o \in {"zero", "ret"} -> IF p > 0 THEN "Down" ELSE "Up"
    [] o = "pos5"  -> IF p > Tenths(51) THEN "Down" ELSE "Up"
    [] o = "pos10" -> IF p > Tenths(101) THEN "Down" ELSE "Up"
    [] o = "neg5"  -> IF p < Tenths(-51) THEN "Up" ELSE "Down"
    [] o = "neg10" -> IF p < Tenths(-101) THEN "Up" ELSE "Down"

\* where control goes when the routine's while loop ends: the final burst of
\* returnToZeroPitch, or the routine's return
AfterLoopRetry(o) == "stab"
AfterLoop(o) == IF o = "ret" THEN "burst" ELSE "ret"

\* phase label the routine passes to streamCSVData
AdjTag(o) ==
  CASE o = "pos5" -> "AdjustingToPos5" [] o = "neg5" -> "AdjustingToNeg5"
    [] o = "pos10" -> "AdjustingToPos10" [] o = "neg10" -> "AdjustingToNeg10"
    [] o = "ret" -> "ReturnToZero" [] OTHER -> "none"

\* phase label of the dwell that loop() runs after routine o
StationaryTagRepeated(o) ==
  CASE o = "pos5" -> "Stationary1" [] o = "neg5" -> "Stationary2"
    [] o = "pos10" -> "Stationary3" [] OTHER -> "Stationary3"
StationaryTag(o) ==
  CASE o = "pos5" -> "Stationary1" [] o = "neg5" -> "Stationary2"
    [] o = "pos10" -> "Stationary3" [] OTHER -> "Stationary4"

\* the routine loop() calls after the dwell that follows routine o
NextOpSkip(o) ==
  CASE o = "pos5" -> "pos10" [] o = "neg5" -> "pos10"
    [] o = "pos10" -> "neg10" [] OTHER -> "ret"
NextOpLoop(o) ==
  CASE o = "pos5" -> "neg5" [] o = "neg5" -> "pos10"
    [] o = "pos10" -> "neg10" [] OTHER -> "pos5"
NextOp(o) ==
  CASE o = "pos5" -> "neg5" [] o = "neg5" -> "pos10"
    [] o = "pos10" -> "neg10" [] OTHER -> "ret"

(***************************************************************************)
(* The angle source                                                        *)
(***************************************************************************)
\* raw readings the free source may deliver inside the +-25 degree envelope
GoodRaw == {-1820, -910, -19, 0, 910, 929, 1820}
\* raw readings outside the envelope (25.005 degrees)
OutRaw == {4552}
GoodSamples == {Decode(r) : r \in GoodRaw}
BadSamples == {NoPitch} \cup {Decode(r) : r \in OutRaw}
AllSamples == GoodSamples \cup BadSamples
\* the samples streamCSVData is tried on when run on its own: both sides of
\* both ends of the envelope as well
EdgeSamples == AllSamples \cup {Decode(r) : r \in {-4552, -4551, 4551, 18}}

\* raw reading of the platform once the ideal source has reached routine o's target
TargetRaw(o) ==
  CASE o = "pos5" -> 910 [] o = "neg5" -> -910
    [] o = "pos10" -> 1820 [] o = "neg10" -> -1820 [] OTHER -> 0

\* the scripted source: 8.0 degrees for its first ScriptPolls polls, 10.05
\* degrees on every later one
ScriptSample ==
  IF polls < ScriptPolls THEN Tenths(80) ELSE Tenths(100) + PITCH_DIV \div 2

\* a platform that does not move (stuck actuator), at about 2 degrees, and
\* one that overshoots every target by about half a degree
StuckRaw == 364
SwingRaw == 91
StuckKinds == {"stuck", "swing"}

\* raw angle of the platform once the drive command of a cycle of routine o,
\* decided on sample p, has acted (a: the angle before)
Platform(o, p, a) ==
  CASE sensor = "ideal" -> TargetRaw(o)
    [] sensor = "swing" -> IF Drive(o, p, "none") = "forward"
                           THEN TargetRaw(o) - SwingRaw
                           ELSE TargetRaw(o) + SwingRaw
    [] OTHER -> a

\* what one readPitch call may return
SensorPoll ==
  CASE sensor \in {"ideal", "stuck", "swing"} -> {Decode(angle)}
    [] sensor = "lost" -> BadSamples
    [] sensor = "script" -> {ScriptSample}
    [] OTHER -> AllSamples

\* the source has answered one more poll / no poll
Polled == polls' = (IF sensor = "script" THEN Min(polls + 1, ScriptPolls) ELSE polls)
NotPolled == polls' = polls

(***************************************************************************)
(* readPitch on the bytes of WT901_SERIAL                                  *)
(***************************************************************************)
SYNC_BYTE == 85
ANGLE_BYTE == 83
REST_LEN == 9

\* int16_t pitch_raw = (hi << 8) | lo
Int16(hi, lo) ==
  LET u == (hi * 256 + lo) % 65536 IN IF u >= 32768 THEN u - 65536 ELSE u

\* readPitch on buffer buf: the value returned and the bytes left
ReadPitchWhole(buf) ==
  IF Len(buf) >= FRAME_LEN
  THEN IF buf[1] = SYNC_BYTE /\ buf[2] = ANGLE_BYTE
       THEN [ret |-> Decode(Int16(buf[4], buf[3])),
             rest |-> SubSeq(buf, FRAME_LEN + 1, Len(buf))]
       ELSE [ret |-> NoPitch, rest |-> SubSeq(buf, FRAME_LEN + 1, Len(buf))]
  ELSE [ret |-> NoPitch, rest |-> buf]
ReadPitchEager(buf) ==
  IF buf # <<>> /\ buf[1] # SYNC_BYTE
  THEN [ret |-> NoPitch, rest |-> Tail(buf)]
  ELSE IF Len(buf) >= FRAME_LEN
       THEN IF buf[2] = ANGLE_BYTE
            THEN [ret |-> Decode(Int16(buf[4], buf[3])),
                  rest |-> SubSeq(buf, REST_LEN + 2, Len(buf))]
            ELSE [ret |-> NoPitch, rest |-> SubSeq(buf, REST_LEN + 2, Len(buf))]
       ELSE [ret |-> NoPitch, rest |-> buf]
ReadPitchTenMore(buf) ==
  IF Len(buf) >= FRAME_LEN
  THEN IF buf[1] = SYNC_BYTE
       THEN IF buf[2] = ANGLE_BYTE
            THEN [ret |-> Decode(Int16(buf[4], buf[3])),
                  rest |-> SubSeq(buf, FRAME_LEN + 1, Len(buf))]
            ELSE [ret |-> NoPitch, rest |-> SubSeq(buf, FRAME_LEN + 1, Len(buf))]
       ELSE [ret |-> NoPitch, rest |-> Tail(buf)]
  ELSE [ret |-> NoPitch, rest |-> buf]
ReadPitch(buf) ==
  IF Len(buf) >= FRAME_LEN
  THEN IF buf[1] = SYNC_BYTE
       THEN IF buf[2] = ANGLE_BYTE
            THEN [ret |-> Decode(Int16(buf[4], buf[3])),
                  rest |-> SubSeq(buf, REST_LEN + 2, Len(buf))]
            ELSE [ret |-> NoPitch, rest |-> SubSeq(buf, REST_LEN + 2, Len(buf))]
       ELSE [ret |-> NoPitch, rest |-> Tail(buf)]
  ELSE [ret |-> NoPitch, rest |-> buf]

(***************************************************************************)
(* readCANData                                                             *)
(***************************************************************************)
DigitChar == <<"0", "1", "2", "3", "4", "5", "6", "7", "8", "9">>
\* String(n) of an unsigned integer: its decimal digits
RECURSIVE Str(_)
Str(n) == IF n < 10 THEN <<DigitChar[n + 1]>>
          ELSE Str(n \div 10) \o <<DigitChar[(n % 10) + 1]>>

\* (hi << 8) | lo stored in a uint16_t
Word(hi, lo) == (hi * 256 + lo) % 65536

NoData == [fuelLevel |-> <<"No Data">>, internalTemp |-> <<"No Data">>,
           externalTemp |-> <<"No Data">>, externalSensorValid |-> FALSE]

\* the external-temperature sentinel table
ExtTextBug(w) ==
  CASE w = 65535 -> <<"Disabled">>
    [] w = 32769 -> <<"Short Circuit">>
    [] w = 32770 -> <<"Open Circuit">>
    [] OTHER -> Str(w)
ExtText(w) ==
  CASE w = 65535 -> <<"Disabled">>
    [] w = 32769 -> <<"Open Circuit">>
    [] w = 32770 -> <<"Short Circuit">>
    [] OTHER -> Str(w)
ExtValid(w) == w \notin {65535, 32769, 32770}

\* the body of `if (len >= 6)`: the CANData decoded from frame m
CanDecode(m) ==
  [fuelLevel |-> Str(Word(m.data[1], m.data[2])),
   internalTemp |-> Str(Word(m.data[3], m.data[4])),
   externalTemp |-> ExtText(Word(m.data[5], m.data[6])),
   externalSensorValid |-> ExtValid(Word(m.data[5], m.data[6]))]

\* a frame shorter than 6 bytes that still overwrites the level fields
CanUpdateMerge(cache, m) ==
  IF m.len >= MIN_CAN_LEN THEN CanDecode(m)
  ELSE IF m.len >= 2
       THEN [cache EXCEPT !.fuelLevel = Str(Word(m.data[1], m.data[2]))]
       ELSE cache
\* lastValidData after readCANData has read frame m
CanUpdate(cache, m) ==
  IF m.len >= MIN_CAN_LEN THEN CanDecode(m) ELSE cache

\* readCANData: reads one pending frame if there is one, returns the cache
ReadCANData ==
  /\ IF canRx # <<>>
     THEN /\ lastValidData' = CanUpdate(lastValidData, Head(canRx))
          /\ canRx' = Tail(canRx)
     ELSE UNCHANGED <<lastValidData, canRx>>
  /\ canData' = <<lastValidData'>>

(***************************************************************************)
(* streamCSVData                                                           *)
(***************************************************************************)
HeaderLine == [kind |-> "header"]
RecordLine(ms, p, cd, phase, direction) ==
  [kind |-> "record", timeMS |-> ms, fuelLevel |-> cd.fuelLevel,
   internalTemp |-> cd.internalTemp, externalTemp |-> cd.externalTemp,
   pitch |-> Fmt2(p), phase |-> phase, direction |-> direction]

\* pitch != -999.0 && pitch >= -25.0 && pitch <= 25.0
StreamGuardLoose(p) == p # NoPitch
StreamGuard(p) == p # NoPitch /\ p >= Tenths(-250) /\ p <= Tenths(250)

\* millis() - startTime once t more ms have passed
Elapsed(t) == IF timed THEN Min(sinceStart + t, MaxElapsed) ELSE sinceStart

\* the "# Status at" line on Serial1: elapsedTime % 1000 < 10
STATUS_PERIOD == 1000
STATUS_SLOT == 10
StatusDue(ms) == ms % STATUS_PERIOD < STATUS_SLOT

\* one call streamCSVData(phase, direction) whose readPitch returned s, made
\* t ms into the program step
StreamCSVData(phase, direction, s, t) ==
  /\ streamPitch' = s
  /\ streamArgs' = <<phase, direction>>
  /\ lastCallMs' = (IF timed THEN Elapsed(t) ELSE lastCallMs)
  /\ Polled
  /\ ReadCANData
  /\ IF StreamGuard(s)
     THEN /\ emitted' = <<RecordLine(Elapsed(t), s, lastValidData', phase,
                                     direction)>>
          /\ lastTag' = phase
     ELSE /\ emitted' = <<>>
          /\ lastTag' = lastTag

\* a program step that does not call streamCSVData and writes no record
SilentDrains ==
  /\ emitted' = <<>>
  /\ streamPitch' = NoPitch
  /\ streamArgs' = <<>>
  /\ ReadCANData
  /\ UNCHANGED <<lastTag, lastCallMs>>
Silent ==
  /\ emitted' = <<>>
  /\ streamPitch' = NoPitch
  /\ streamArgs' = <<>>
  /\ UNCHANGED <<lastTag, lastValidData, canData, canRx, lastCallMs>>

\* a silent step that does not call readPitch either
NoStream ==
  /\ Silent
  /\ NotPolled

(***************************************************************************)
(* The clocks: time `before` passes, readCANData may stamp lastCanMsgTime  *)
(* (read), then time `after` passes                                        *)
(***************************************************************************)
ClockNoDelay(before, read, after) ==
  IF timed
  THEN /\ sinceStart' = Min(sinceStart + before, MaxElapsed)
       /\ canAge' = Min(IF read THEN 0 ELSE canAge + before, STALE_MS + 1)
  ELSE UNCHANGED <<canAge, sinceStart>>
Clock(before, read, after) ==
  IF timed
  THEN /\ sinceStart' = Min(sinceStart + before + after, MaxElapsed)
       /\ canAge' = Min((IF read THEN 0 ELSE canAge + before) + after,
                        STALE_MS + 1)
  ELSE UNCHANGED <<canAge, sinceStart>>

\* whether a readCANData call made with rx pending sets lastCanMsgTime: it
\* does for any message read, before the length test
StampsFullOnly(rx) == rx # <<>> /\ Head(rx).len >= MIN_CAN_LEN
Stamps(rx) == rx # <<>>

\* millis() - lastCanMsgTime > 60000
StaleLimitShort(age) == age > STALE_MS \div 10
StaleLimit(age) == age > STALE_MS

(***************************************************************************)
(* Actuator driver                                                         *)
(***************************************************************************)
Sat(n, cap) == IF n < cap THEN n + 1 ELSE cap

\* stopMotor()
StopMotorKeepsPins ==
  /\ motor' = motor
  /\ isMoving' = FALSE
StopMotorPinsOnly ==
  /\ motor' = "stopped"
  /\ isMoving' = isMoving
StopMotor ==
  /\ motor' = "stopped"
  /\ isMoving' = FALSE

\* entry of a controller routine: its locals as declared
EnterOp(o) ==
  /\ op' = o
  /\ pc' = "acq0"
  /\ pitch' = NoPitch
  /\ timeoutCounter' = 0
  /\ winElapsed' = 0
  /\ sinceData' = 0
  /\ burstI' = 0
  /\ outcome' = "none"
  /\ reads' = 0
  /\ waited' = 0
  /\ opCmds' = 0
  /\ allBad' = TRUE
  /\ burstCalls' = 0

envVars == <<sensor, angle, busOn, operatorOn, timed>>
opGhost == <<outcome, reads, waited, opCmds, allBad>>

(***************************************************************************)
(* setup(): lines 113-120, up to the entry of adjustToZeroPitch            *)
(***************************************************************************)
\* the value setup() gives headersWritten (line 114)
SetupKeepsHeaders == headersWritten
SetupHeaders == FALSE

SetupBegin ==
  /\ pc = "setup"
  /\ headersWritten' = SetupHeaders
  /\ StopMotor
  /\ EnterOp("zero")
  /\ hdrCount' = 0
  /\ lastTag' = "none"
  /\ emitted' = <<>>
  /\ streamPitch' = NoPitch
  /\ streamArgs' = <<>>
  /\ lastCallMs' = -1
  /\ Clock(SETUP_DELAY, FALSE, 0)
  /\ warned' = FALSE
  /\ UNCHANGED <<testComplete, lastValidData, canData, canRx, serialIn,
                 envVars, resetFromRun, harnessVars, polls>>

(***************************************************************************)
(* One iteration of a routine's initial acquisition loop, and the          *)
(* "Failed to get valid pitch reading" return when the budget is spent     *)
(***************************************************************************)
AcquireInitial ==
  /\ pc = "acq0"
  /\ \E s \in SensorPoll :
       /\ pitch' = s
       /\ IF InvalidPitch(s)
          THEN /\ timeoutCounter' = timeoutCounter + 1
               /\ reads' = reads + 1
               /\ waited' = waited + RETRY_DELAY
               /\ Clock(0, FALSE, RETRY_DELAY)
               /\ IF BudgetLeft(timeoutCounter + 1)
                  THEN pc' = "acq0" /\ outcome' = outcome
                  ELSE pc' = "ret" /\ outcome' = "initfail"
          ELSE /\ timeoutCounter' = 0
               /\ reads' = 0
               /\ waited' = 0
               /\ Clock(0, FALSE, 0)
               /\ pc' = "check"
               /\ outcome' = outcome
       /\ allBad' = (allBad /\ ~Usable(s))
  /\ Silent
  /\ Polled
  /\ warned' = FALSE
  /\ UNCHANGED <<op, motor, isMoving, testComplete, headersWritten,
                 winElapsed, sinceData, burstI, serialIn, envVars, hdrCount,
                 opCmds, resetFromRun, harnessVars, burstGhost>>

(***************************************************************************)
(* The routine's while test: leave the loop (stopMotor) when the sample is *)
(* in the band, else issue the drive command of a new cycle                *)
(***************************************************************************)
ControlCheck ==
  /\ pc = "check"
  /\ IF OutOfBand(op, pitch)
     THEN /\ motor' = Drive(op, pitch, motor)
          /\ isMoving' = (IF Drive(op, pitch, "none") = "none"
                          THEN isMoving ELSE TRUE)
          /\ opCmds' = Sat(opCmds, MaxCmds)
          /\ pc' = "pulse"
          /\ angle' = Platform(op, pitch, angle)
          /\ outcome' = outcome
     ELSE /\ StopMotor
          /\ opCmds' = Sat(opCmds, MaxCmds)
          /\ pc' = AfterLoop(op)
          /\ angle' = angle
          /\ outcome' = "reached"
  /\ winElapsed' = 0
  /\ sinceData' = 0
  /\ burstI' = 0
  /\ NoStream
  /\ UNCHANGED <<op, pitch, timeoutCounter, testComplete, headersWritten,
                 serialIn, sensor, busOn, operatorOn, timed, hdrCount, reads,
                 waited, allBad, resetFromRun, harnessVars, clockVars,
                 burstGhost>>

(***************************************************************************)
(* One iteration of the 200 ms pulse window.  adjustToZeroPitch only       *)
(* delays; the other routines stream at the DATA_INTERVAL cadence.  The    *)
(* step that ends the window calls stopMotor.                              *)
(***************************************************************************)
PulseStep ==
  /\ pc = "pulse"
  /\ LET d == Min(DATA_INTERVAL - sinceData, PULSE_MS - winElapsed)
         t == winElapsed + d
     IN IF op # "zero" /\ t < PULSE_MS
        THEN /\ \E s \in SensorPoll :
                  StreamCSVData(AdjTag(op), PulseLabel(op, pitch), s, d)
             /\ Clock(d, Stamps(canRx), 0)
             /\ winElapsed' = t
             /\ sinceData' = 0
             /\ UNCHANGED <<pc, motor, isMoving, opCmds>>
        ELSE /\ StopMotor
             /\ opCmds' = Sat(opCmds, MaxCmds)
             /\ pc' = "stab"
             /\ Clock(PULSE_MS - winElapsed, FALSE, 0)
             /\ winElapsed' = 0
             /\ sinceData' = 0
             /\ NoStream
  /\ warned' = FALSE
  /\ UNCHANGED <<op, pitch, timeoutCounter, testComplete, headersWritten,
                 burstI, serialIn, envVars, hdrCount, outcome, reads, waited,
                 allBad, resetFromRun, harnessVars, burstGhost>>

(***************************************************************************)
(* One iteration of the 1000 ms stabilization window; the step that ends   *)
(* it resets timeoutCounter and pitch for the re-acquisition               *)
(***************************************************************************)
StabStep ==
  /\ pc = "stab"
  /\ LET d == Min(DATA_INTERVAL - sinceData, STABILIZE_MS - winElapsed)
         t == winElapsed + d
     IN IF op # "zero" /\ t < STABILIZE_MS
        THEN /\ \E s \in SensorPoll :
                  StreamCSVData(AdjTag(op), "Stabilizing", s, d)
             /\ Clock(d, Stamps(canRx), 0)
             /\ winElapsed' = t
             /\ sinceData' = 0
             /\ UNCHANGED <<pc, pitch>>
        ELSE /\ pc' = "acq1"
             /\ pitch' = NoPitch
             /\ Clock(STABILIZE_MS - winElapsed, FALSE, 0)
             /\ winElapsed' = 0
             /\ sinceData' = 0
             /\ NoStream
  /\ timeoutCounter' = 0
  /\ warned' = FALSE
  /\ UNCHANGED <<op, motor, isMoving, testComplete, headersWritten, burstI,
                 serialIn, envVars, hdrCount, opGhost, resetFromRun,
                 harnessVars, burstGhost>>

(***************************************************************************)
(* One iteration of the re-acquisition loop after a cycle, and the "Lost   *)
(* valid pitch reading" break (followed by the routine's final stopMotor)  *)
(***************************************************************************)
Reacquire ==
  /\ pc = "acq1"
  /\ \E s \in SensorPoll :
       /\ pitch' = s
       /\ IF InvalidPitch(s)
          THEN /\ timeoutCounter' = timeoutCounter + 1
               /\ reads' = reads + 1
               /\ waited' = waited + RETRY_DELAY
               /\ Clock(0, FALSE, RETRY_DELAY)
               /\ IF BudgetLeft(timeoutCounter + 1)
                  THEN /\ pc' = "acq1"
                       /\ UNCHANGED <<outcome, motor, isMoving, opCmds>>
                  ELSE /\ pc' = AfterLoop(op)
                       /\ outcome' = "lost"
                       /\ StopMotor
                       /\ opCmds' = Sat(opCmds, MaxCmds)
          ELSE /\ timeoutCounter' = 0
               /\ reads' = 0
               /\ waited' = 0
               /\ Clock(0, FALSE, 0)
               /\ pc' = "check"
               /\ UNCHANGED <<outcome, motor, isMoving, opCmds>>
  /\ Silent
  /\ Polled
  /\ warned' = FALSE
  /\ UNCHANGED <<op, testComplete, headersWritten, winElapsed, sinceData,
                 burstI, serialIn, envVars, hdrCount, allBad, resetFromRun,
                 harnessVars, burstGhost>>

(***************************************************************************)
(* One iteration of returnToZeroPitch's final for loop (lines 446-453)     *)
(***************************************************************************)
BurstStep ==
  /\ pc = "burst"
  /\ IF sinceData >= DATA_INTERVAL
     THEN /\ \E s \in SensorPoll : StreamCSVData("Complete", "Zero", s, 0)
          /\ Clock(0, Stamps(canRx), BURST_DELAY)
          /\ sinceData' = Min(BURST_DELAY, DATA_INTERVAL)
          /\ burstCalls' = burstCalls + 1
     ELSE /\ NoStream
          /\ Clock(0, FALSE, BURST_DELAY)
          /\ sinceData' = Min(sinceData + BURST_DELAY, DATA_INTERVAL)
          /\ UNCHANGED burstGhost
  /\ burstI' = burstI + 1
  /\ pc' = IF burstI + 1 < BURST_COUNT THEN "burst" ELSE "ret"
  /\ warned' = FALSE
  /\ UNCHANGED <<op, pitch, timeoutCounter, motor, isMoving, testComplete,
                 headersWritten, winElapsed, serialIn, envVars, hdrCount,
                 opGhost, resetFromRun, harnessVars>>

(***************************************************************************)
(* The routine returns to its caller: setup() for adjustToZeroPitch        *)
(* (lines 121-125), loop() for the others (stopMotor and the start of the  *)
(* dwell, or testComplete after returnToZeroPitch)                         *)
(***************************************************************************)
\* the value setup() gives testComplete (line 125)
SetupKeepsComplete == testComplete
SetupComplete == FALSE

\* loop()'s staleness check: the warning, and lastCanMsgTime = millis()
StaleCheck ==
  IF timed /\ StaleLimit(canAge)
  THEN warned' = TRUE /\ canAge' = 0
  ELSE warned' = FALSE /\ canAge' = canAge

OpReturn ==
  /\ pc = "ret"
  /\ CASE op = "zero" ->
            /\ sinceStart' = 0
            /\ testComplete' = SetupComplete
            /\ pc' = "loop"
            /\ warned' = FALSE
            /\ UNCHANGED <<motor, isMoving, canAge>>
       [] op = "ret" ->
            /\ testComplete' = TRUE
            /\ StaleCheck
            /\ pc' = "loop"
            /\ UNCHANGED <<motor, isMoving, sinceStart>>
       [] OTHER ->
            /\ StaleCheck
            /\ StopMotor
            /\ pc' = "dwell"
            /\ UNCHANGED <<testComplete, sinceStart>>
  /\ pitch' = NoPitch
  /\ timeoutCounter' = 0
  /\ winElapsed' = 0
  /\ sinceData' = 0
  /\ burstI' = 0
  /\ outcome' = "none"
  /\ reads' = 0
  /\ waited' = 0
  /\ opCmds' = 0
  /\ allBad' = TRUE
  /\ burstCalls' = 0
  /\ NoStream
  /\ UNCHANGED <<op, headersWritten, serialIn, envVars, hdrCount,
                 resetFromRun, harnessVars>>

(***************************************************************************)
(* One iteration of a 10 s stationary period of loop(); the step that ends *)
(* it enters the next controller routine                                   *)
(***************************************************************************)
DwellStep ==
  /\ pc = "dwell"
  /\ LET d == Min(DATA_INTERVAL - sinceData, DWELL_MS - winElapsed)
         t == winElapsed + d
     IN IF t < DWELL_MS
        THEN /\ \E s \in SensorPoll :
                  StreamCSVData(StationaryTag(op), "None", s, d)
             /\ Clock(d, Stamps(canRx), 0)
             /\ winElapsed' = t
             /\ sinceData' = 0
             /\ UNCHANGED <<pc, op, pitch, timeoutCounter, burstI, opGhost,
                            burstGhost>>
        ELSE /\ EnterOp(NextOp(op))
             /\ Clock(DWELL_MS - winElapsed, FALSE, 0)
             /\ NoStream
  /\ warned' = FALSE
  /\ UNCHANGED <<motor, isMoving, testComplete, headersWritten, serialIn,
                 envVars, hdrCount, resetFromRun, harnessVars>>

(***************************************************************************)
(* loop() with testComplete false: the header, then adjustToPosFivePitch   *)
(***************************************************************************)
RunStart ==
  /\ pc = "loop"
  /\ ~testComplete
  /\ IF ~headersWritten
     THEN emitted' = <<HeaderLine>> /\ hdrCount' = Sat(hdrCount, 2)
     ELSE emitted' = <<>> /\ hdrCount' = hdrCount
  /\ headersWritten' = TRUE
  /\ EnterOp("pos5")
  /\ streamPitch' = NoPitch
  /\ streamArgs' = <<>>
  /\ warned' = FALSE
  /\ UNCHANGED <<motor, isMoving, testComplete, lastTag, lastValidData,
                 canData, canRx, serialIn, envVars, resetFromRun, harnessVars,
                 canAge, sinceStart, polls, lastCallMs>>

(***************************************************************************)
(* loop() with testComplete true: read one command line if one is pending; *)
(* "reset" calls setup(), anything else is dropped                         *)
(***************************************************************************)
\* command == "reset"
IsResetTrimmed(text) == text \in {"reset", "reset\r"}
IsReset(text) == text = "reset"

IdlePoll ==
  /\ pc = "loop"
  /\ testComplete
  /\ IF serialIn # <<>>
     THEN /\ serialIn' = Tail(serialIn)
          /\ IF IsReset(Head(serialIn).text)
             THEN /\ pc' = "setup"
                  /\ resetFromRun' = Head(serialIn).duringRun
                  /\ Clock(0, FALSE, 0)
             ELSE /\ UNCHANGED <<pc, resetFromRun>>
                  /\ Clock(0, FALSE, IDLE_DELAY)
     ELSE /\ UNCHANGED <<pc, serialIn, resetFromRun>>
          /\ Clock(0, FALSE, IDLE_DELAY)
  /\ NoStream
  /\ warned' = FALSE
  /\ UNCHANGED <<op, pitch, timeoutCounter, motor, isMoving, testComplete,
                 headersWritten, winElapsed, sinceData, burstI, envVars,
                 hdrCount, opGhost, harnessVars, burstGhost>>

(***************************************************************************)
(* Environment                                                             *)
(***************************************************************************)
Idle == pc = "loop" /\ testComplete

\* the angle source stops delivering usable samples, for good (explored in
\* the scenarios without bus traffic and operator input)
SensorLoss ==
  /\ ~busOn
  /\ ~operatorOn
  /\ sensor # "lost"
  /\ sensor' = "lost"
  /\ UNCHANGED <<progVars, lastValidData, canData, canRx, serialIn, angle,
                 busOn, operatorOn, timed, emitted, streamPitch, lastTag,
                 hdrCount, opGhost, resetFromRun, harnessVars, clockVars,
                 streamArgs, burstGhost, polls>>

Frame(n, b) == [len |-> n, data |-> b]
\* frames the bus delivers while the sequencer runs: a full one and a short one
BusFrames == {Frame(8, <<1, 44, 0, 25, 0, 30, 0, 0>>),
              Frame(4, <<0, 7, 0, 9, 0, 0, 0, 0>>)}

\* a frame arrives in the controller's receive buffer (in the timed
\* scenarios only at the start of a window, which keeps the clock values few)
CanArrive ==
  /\ busOn
  /\ Len(canRx) < MaxPending
  /\ timed => winElapsed = 0
  /\ \E m \in BusFrames : canRx' = Append(canRx, m)
  /\ UNCHANGED <<progVars, lastValidData, canData, serialIn, envVars,
                 emitted, streamPitch, lastTag, hdrCount, opGhost,
                 resetFromRun, harnessVars, clockVars, streamArgs, burstGhost,
                 polls>>

CommandLines == {"reset", "reset\r"}

\* the operator sends a line; it waits in the serial receive buffer (in the
\* timed scenarios during a run, or in Idle once the bus has been silent for
\* more than STALE_MS, which keeps the clock values few)
SerialArrive ==
  /\ operatorOn
  /\ Len(serialIn) < MaxInput
  /\ timed => (~Idle \/ canAge > STALE_MS)
  /\ \E t \in CommandLines :
       serialIn' = Append(serialIn, [text |-> t, duringRun |-> ~Idle])
  /\ UNCHANGED <<progVars, lastValidData, canData, canRx, envVars, emitted,
                 streamPitch, lastTag, hdrCount, opGhost, resetFromRun,
                 harnessVars, clockVars, streamArgs, burstGhost, polls>>

(***************************************************************************)
(* The sequencer                                                           *)
(***************************************************************************)
Scenarios == {<<"free", FALSE, FALSE>>, <<"ideal", FALSE, FALSE>>,
              <<"ideal", TRUE, FALSE>>, <<"ideal", FALSE, TRUE>>}
InitRaw == {0, 700}

\* what a scenario does not follow stays at its initial value
Untimed ==
  /\ timed = FALSE
  /\ canAge = 0
  /\ sinceStart = 0
  /\ warned = FALSE
  /\ lastCallMs = -1
NoPitchBytes == wtBuf = <<>> /\ hRet = NoPitch /\ hBuf = <<>>
GhostInit == streamArgs = <<>> /\ burstCalls = 0 /\ polls = 0

\* the program at power-up, on entry of setup()
ProgInit ==
  /\ pc = "setup"
  /\ op = "zero"
  /\ pitch = NoPitch
  /\ timeoutCounter = 0
  /\ motor = "stopped"
  /\ isMoving = FALSE
  /\ testComplete = FALSE
  /\ headersWritten = FALSE
  /\ winElapsed = 0
  /\ sinceData = 0
  /\ burstI = 0
  /\ lastValidData = NoData
  /\ canData = <<>>
  /\ canRx = <<>>
  /\ serialIn = <<>>
  /\ emitted = <<>>
  /\ streamPitch = NoPitch
  /\ lastTag = "none"
  /\ hdrCount = 0
  /\ outcome = "none"
  /\ reads = 0
  /\ waited = 0
  /\ opCmds = 0
  /\ allBad = TRUE
  /\ resetFromRun = FALSE
  /\ hCalls = 0
  /\ hValid = 0
  /\ hRecords = 0
  /\ hAlt = TRUE
  /\ hMsg = <<>>
  /\ hPrev = NoData
  /\ GhostInit
  /\ NoPitchBytes

Init ==
  /\ ProgInit
  /\ \E sc \in Scenarios :
       /\ sensor = sc[1]
       /\ busOn = sc[2]
       /\ operatorOn = sc[3]
       /\ angle \in (IF sc[1] = "ideal" THEN InitRaw ELSE {0})
  /\ Untimed

Step ==
  \/ SetupBegin
  \/ AcquireInitial
  \/ ControlCheck
  \/ PulseStep
  \/ StabStep
  \/ Reacquire
  \/ BurstStep
  \/ OpReturn
  \/ DwellStep
  \/ RunStart
  \/ IdlePoll

Next == Step \/ SensorLoss \/ CanArrive \/ SerialArrive

Spec == Init /\ [][Next]_vars

\* The scenarios without bus traffic and operator input, and the ones with
\* the ideal angle source.  The processor always executes the program's next
\* step: weak fairness of Step.
InitQuiet == Init /\ ~busOn /\ ~operatorOn
NextQuiet == Step \/ SensorLoss
FairSpec == InitQuiet /\ [][NextQuiet]_vars /\ WF_vars(Step)

InitIdeal == Init /\ sensor = "ideal"
FairIdeal == InitIdeal /\ [][Next]_vars /\ WF_vars(Step)

\* The timed scenarios: the angle source lost from the start with frames on
\* the bus, and the ideal source with an operator.  millis() is 0 at
\* power-up, as are startTime and lastCanMsgTime.
TimedScenarios == {<<"lost", TRUE, FALSE>>, <<"ideal", FALSE, TRUE>>}
InitTimed ==
  /\ ProgInit
  /\ \E sc \in TimedScenarios :
       /\ sensor = sc[1]
       /\ busOn = sc[2]
       /\ operatorOn = sc[3]
  /\ angle = 0
  /\ timed = TRUE
  /\ canAge = 0
  /\ sinceStart = 0
  /\ warned = FALSE
  /\ lastCallMs = -1
NextTimed == Step \/ CanArrive \/ SerialArrive
SpecTimed == InitTimed /\ [][NextTimed]_vars

(***************************************************************************)
(* streamCSVData on its own: MaxCalls calls with arbitrary samples         *)
(***************************************************************************)
StreamLabels == {<<"Stationary1", "None">>, <<"Complete", "Zero">>}

InitStream ==
  /\ pc = "stream"
  /\ op = "zero"
  /\ pitch = NoPitch
  /\ timeoutCounter = 0
  /\ motor = "stopped"
  /\ isMoving = FALSE
  /\ testComplete = FALSE
  /\ headersWritten = TRUE
  /\ winElapsed = 0
  /\ sinceData = 0
  /\ burstI = 0
  /\ lastValidData = NoData
  /\ canData = <<>>
  /\ canRx \in {<<>>} \cup {<<m>> : m \in BusFrames}
  /\ serialIn = <<>>
  /\ sensor = "free"
  /\ angle = 0
  /\ busOn = FALSE
  /\ operatorOn = FALSE
  /\ emitted = <<>>
  /\ streamPitch = NoPitch
  /\ lastTag = "none"
  /\ hdrCount = 1
  /\ outcome = "none"
  /\ reads = 0
  /\ waited = 0
  /\ opCmds = 0
  /\ allBad = TRUE
  /\ resetFromRun = FALSE
  /\ hCalls = 0
  /\ hValid = 0
  /\ hRecords = 0
  /\ hAlt = TRUE
  /\ hMsg = <<>>
  /\ hPrev = NoData
  /\ GhostInit
  /\ NoPitchBytes
  /\ Untimed

StreamCall ==
  /\ pc = "stream"
  /\ hCalls < MaxCalls
  /\ \E s \in EdgeSamples, l \in StreamLabels :
       /\ StreamCSVData(l[1], l[2], s, 0)
       /\ hValid' = hValid + (IF Usable(s) THEN 1 ELSE 0)
       /\ hAlt' = (hAlt /\ (hCalls = 0 \/ Usable(s) # Usable(streamPitch)))
  /\ hCalls' = hCalls + 1
  /\ hRecords' = hRecords + Len(emitted')
  /\ UNCHANGED <<progVars, serialIn, envVars, hdrCount, opGhost,
                 resetFromRun, hMsg, hPrev, wtBuf, hRet, hBuf, clockVars,
                 burstGhost>>

NextStream == StreamCall

SpecStream == InitStream /\ [][NextStream]_vars

(***************************************************************************)
(* readCANData on its own: the pending frames are polled one by one        *)
(***************************************************************************)
Bytes == 0 .. 255
\* every value of the third word, in a frame of exactly the minimum length
WordFrames == {Frame(6, <<0, 100, 1, 0, hi, lo, 0, 0>>) : hi \in Bytes, lo \in Bytes}
SmallFrames == {Frame(8, <<1, 44, 0, 25, 0, 30, 9, 9>>),
                Frame(6, <<255, 255, 128, 1, 255, 255, 0, 0>>),
                Frame(7, <<0, 0, 0, 1, 128, 2, 0, 0>>),
                Frame(5, <<0, 7, 0, 9, 128, 0, 0, 0>>),
                Frame(2, <<3, 232, 0, 0, 0, 0, 0, 0>>),
                Frame(0, <<0, 0, 0, 0, 0, 0, 0, 0>>)}
CanQueues == {<<>>} \cup {<<m>> : m \in WordFrames}
                    \cup {<<a, b>> : a \in SmallFrames, b \in SmallFrames}

InitCan ==
  /\ pc = "can"
  /\ op = "zero"
  /\ pitch = NoPitch
  /\ timeoutCounter = 0
  /\ motor = "stopped"
  /\ isMoving = FALSE
  /\ testComplete = FALSE
  /\ headersWritten = FALSE
  /\ winElapsed = 0
  /\ sinceData = 0
  /\ burstI = 0
  /\ lastValidData = NoData
  /\ canData = <<>>
  /\ canRx \in CanQueues
  /\ serialIn = <<>>
  /\ sensor = "free"
  /\ angle = 0
  /\ busOn = TRUE
  /\ operatorOn = FALSE
  /\ emitted = <<>>
  /\ streamPitch = NoPitch
  /\ lastTag = "none"
  /\ hdrCount = 0
  /\ outcome = "none"
  /\ reads = 0
  /\ waited = 0
  /\ opCmds = 0
  /\ allBad = TRUE
  /\ resetFromRun = FALSE
  /\ hCalls = 0
  /\ hValid = 0
  /\ hRecords = 0
  /\ hAlt = TRUE
  /\ hMsg = <<>>
  /\ hPrev = NoData
  /\ GhostInit
  /\ NoPitchBytes
  /\ Untimed

CanPoll ==
  /\ pc = "can"
  /\ hMsg' = (IF canRx # <<>> THEN <<Head(canRx)>> ELSE <<>>)
  /\ hPrev' = lastValidData
  /\ ReadCANData
  /\ UNCHANGED <<progVars, serialIn, envVars, emitted, streamPitch, lastTag,
                 hdrCount, opGhost, resetFromRun, hCalls, hValid, hRecords,
                 hAlt, wtBuf, hRet, hBuf, clockVars, streamArgs, burstGhost,
                 polls>>

NextCan == CanPoll

SpecCan == InitCan /\ [][NextCan]_vars

(***************************************************************************)
(* readPitch on its own: bytes arrive on WT901_SERIAL and are polled       *)
(***************************************************************************)
\* <<low byte, high byte>> of the angle field: 0, 910, 4552, -1820, -1,
\* -32768, 32767
PitchPairs == {<<0, 0>>, <<142, 3>>, <<200, 17>>, <<228, 248>>, <<255, 255>>,
               <<0, 128>>, <<255, 127>>}
\* an 11-byte packet: header, type, angle field, six more bytes, checksum
WtFrame(h, t, lo, hi) == <<h, t, lo, hi, 0, 0, 0, 0, 0, 0, 1>>
WtFrames == {WtFrame(h, t, b[1], b[2]) :
               h \in {SYNC_BYTE, 0}, t \in {ANGLE_BYTE, 81}, b \in PitchPairs}
WtBuffers == {SubSeq(f, 1, n) : f \in WtFrames, n \in {0, 5, 10, 11}}
               \cup {<<7>> \o f : f \in WtFrames}
               \cup {f \o <<SYNC_BYTE>> : f \in WtFrames}
ArrivalBytes == {0, SYNC_BYTE}

InitPitch ==
  /\ pc = "pitch"
  /\ op = "zero"
  /\ pitch = NoPitch
  /\ timeoutCounter = 0
  /\ motor = "stopped"
  /\ isMoving = FALSE
  /\ testComplete = FALSE
  /\ headersWritten = FALSE
  /\ winElapsed = 0
  /\ sinceData = 0
  /\ burstI = 0
  /\ lastValidData = NoData
  /\ canData = <<>>
  /\ canRx = <<>>
  /\ serialIn = <<>>
  /\ sensor = "free"
  /\ angle = 0
  /\ busOn = FALSE
  /\ operatorOn = FALSE
  /\ emitted = <<>>
  /\ streamPitch = NoPitch
  /\ lastTag = "none"
  /\ hdrCount = 0
  /\ outcome = "none"
  /\ reads = 0
  /\ waited = 0
  /\ opCmds = 0
  /\ allBad = TRUE
  /\ resetFromRun = FALSE
  /\ hCalls = 0
  /\ hValid = 0
  /\ hRecords = 0
  /\ hAlt = TRUE
  /\ hMsg = <<>>
  /\ hPrev = NoData
  /\ GhostInit
  /\ Untimed
  /\ wtBuf \in WtBuffers
  /\ hRet = NoPitch
  /\ hBuf = <<>>

\* one readPitch call
PitchPoll ==
  /\ pc = "pitch"
  /\ hBuf' = <<wtBuf>>
  /\ hRet' = ReadPitch(wtBuf).ret
  /\ wtBuf' = ReadPitch(wtBuf).rest
  /\ UNCHANGED <<progVars, lastValidData, canData, canRx, serialIn, envVars,
                 emitted, streamPitch, lastTag, hdrCount, opGhost,
                 resetFromRun, hCalls, hValid, hRecords, hAlt, hMsg, hPrev,
                 clockVars, streamArgs, burstGhost, polls>>

\* the sensor sends one more byte
ByteArrive ==
  /\ pc = "pitch"
  /\ Len(wtBuf) < MaxWt
  /\ \E b \in ArrivalBytes : wtBuf' = Append(wtBuf, b)
  /\ hBuf' = <<>>
  /\ hRet' = NoPitch
  /\ UNCHANGED <<progVars, lastValidData, canData, canRx, serialIn, envVars,
                 emitted, streamPitch, lastTag, hdrCount, opGhost,
                 resetFromRun, hCalls, hValid, hRecords, hAlt, hMsg, hPrev,
                 clockVars, streamArgs, burstGhost, polls>>

NextPitch == PitchPoll \/ ByteArrive

SpecPitch == InitPitch /\ [][NextPitch]_vars

(***************************************************************************)
(* adjustToPosTenPitch on its own, from its entry (as loop() calls it      *)
(* after the second dwell) to its return, with the scripted pitch source   *)
(***************************************************************************)
InitConverge ==
  /\ pc = "acq0"
  /\ op = "pos10"
  /\ pitch = NoPitch
  /\ timeoutCounter = 0
  /\ motor = "stopped"
  /\ isMoving = FALSE
  /\ testComplete = FALSE
  /\ headersWritten = TRUE
  /\ winElapsed = 0
  /\ sinceData = 0
  /\ burstI = 0
  /\ lastValidData = NoData
  /\ canData = <<>>
  /\ canRx = <<>>
  /\ serialIn = <<>>
  /\ sensor = "script"
  /\ angle = 0
  /\ busOn \in BOOLEAN
  /\ operatorOn = FALSE
  /\ emitted = <<>>
  /\ streamPitch = NoPitch
  /\ lastTag \in {"none", "Stationary2"}
  /\ hdrCount = 1
  /\ outcome = "none"
  /\ reads = 0
  /\ waited = 0
  /\ opCmds = 0
  /\ allBad = TRUE
  /\ resetFromRun = FALSE
  /\ hCalls = 0
  /\ hValid = 0
  /\ hRecords = 0
  /\ hAlt = TRUE
  /\ hMsg = <<>>
  /\ hPrev = NoData
  /\ GhostInit
  /\ NoPitchBytes
  /\ Untimed

NextConverge ==
  \/ AcquireInitial
  \/ ControlCheck
  \/ PulseStep
  \/ StabStep
  \/ Reacquire
  \/ CanArrive

SpecConverge == InitConverge /\ [][NextConverge]_vars

(***************************************************************************)
(* A controller routine from its entry, with a platform that never gets    *)
(* into the band (stuck, or overshooting both ways); the last routine of   *)
(* the script with the ideal source, for comparison                        *)
(***************************************************************************)
StuckScenarios == {<<"stuck", TRUE, TRUE>>, <<"swing", TRUE, TRUE>>,
                   <<"ideal", FALSE, TRUE>>, <<"ideal", FALSE, FALSE>>}

InitStuck ==
  /\ pc = "acq0"
  /\ \E sc \in StuckScenarios :
       /\ sensor = sc[1]
       /\ busOn = sc[2]
       /\ operatorOn = sc[3]
       /\ op \in (IF sc[1] = "ideal" THEN {"neg10"} ELSE Ops)
       /\ angle = (CASE sc[1] = "stuck" -> StuckRaw
                     [] sc[1] = "swing" -> TargetRaw(op) + SwingRaw
                     [] OTHER -> 1820)
  /\ pitch = NoPitch
  /\ timeoutCounter = 0
  /\ motor = "stopped"
  /\ isMoving = FALSE
  /\ testComplete = FALSE
  /\ headersWritten = (op # "zero")
  /\ winElapsed = 0
  /\ sinceData = 0
  /\ burstI = 0
  /\ lastValidData = NoData
  /\ canData = <<>>
  /\ canRx = <<>>
  /\ serialIn = <<>>
  /\ emitted = <<>>
  /\ streamPitch = NoPitch
  /\ lastTag = "none"
  /\ hdrCount = (IF op = "zero" THEN 0 ELSE 1)
  /\ outcome = "none"
  /\ reads = 0
  /\ waited = 0
  /\ opCmds = 0
  /\ allBad = TRUE
  /\ resetFromRun = FALSE
  /\ hCalls = 0
  /\ hValid = 0
  /\ hRecords = 0
  /\ hAlt = TRUE
  /\ hMsg = <<>>
  /\ hPrev = NoData
  /\ GhostInit
  /\ NoPitchBytes
  /\ Untimed

FairStuck == InitStuck /\ [][Next]_vars /\ WF_vars(Step)

(***************************************************************************)
(* The timed sequencer on a bus that delivers only too-short messages, a   *)
(* new one as soon as the previous one has been read                       *)
(***************************************************************************)
ShortFrames == {m \in BusFrames : m.len < MIN_CAN_LEN}
ShortBusScenarios == {<<"lost", TRUE, TRUE>>, <<"ideal", TRUE, TRUE>>}

InitShortBus ==
  /\ ProgInit
  /\ \E sc \in ShortBusScenarios :
       /\ sensor = sc[1]
       /\ busOn = sc[2]
       /\ operatorOn = sc[3]
  /\ angle = 0
  /\ timed = TRUE
  /\ canAge = 0
  /\ sinceStart = 0
  /\ warned = FALSE
  /\ lastCallMs = -1

ShortArrive ==
  /\ busOn
  /\ canRx = <<>>
  /\ \E m \in ShortFrames : canRx' = <<m>>
  /\ UNCHANGED <<progVars, lastValidData, canData, serialIn, envVars,
                 emitted, streamPitch, lastTag, hdrCount, opGhost,
                 resetFromRun, harnessVars, clockVars, streamArgs, burstGhost,
                 polls>>

NextShortBus ==
  \/ ShortArrive
  \/ canRx # <<>> /\ Step
  \/ canRx # <<>> /\ SerialArrive

SpecShortBus == InitShortBus /\ [][NextShortBus]_vars

\* The sequencer and readPitch together: what is done with a sample, from
\* the bytes to the controller and the streamer
InitSensor == Init \/ InitPitch
NextSensor == Next \/ NextPitch
SpecSensor == InitSensor /\ [][NextSensor]_vars

(***************************************************************************)
(* Properties                                                              *)
(***************************************************************************)
\* the record written by the last program step, if any
HasRecord(e) == e # <<>> /\ e[1].kind = "record"

\* position of a phase label in the script of loop()
Rank(tag) ==
  CASE tag = "none" -> 0
    [] tag = "AdjustingToPos5" -> 1 [] tag = "Stationary1" -> 2
    [] tag = "AdjustingToNeg5" -> 3 [] tag = "Stationary2" -> 4
    [] tag = "AdjustingToPos10" -> 5 [] tag = "Stationary3" -> 6
    [] tag = "AdjustingToNeg10" -> 7 [] tag = "Stationary4" -> 8
    [] tag = "ReturnToZero" -> 9 [] tag = "Complete" -> 10

\* position of a phase label in the list of the full-sequence scenario, which
\* starts with Level0
ListedRank(tag) ==
  CASE tag = "none" -> 0 [] tag = "Level0" -> 1 [] OTHER -> Rank(tag) + 1

\* C1 as stated: with the ideal angle source the first record of a run is
\* tagged Level0 and every later record carries the tag of the previous one
\* or the next one of the list Level0, AdjustingToPos5, ..., Complete.
C1_ListedOrder ==
  [][(sensor' = "ideal" /\ HasRecord(emitted'))
       => ListedRank(emitted'[1].phase)
            \in {ListedRank(lastTag), ListedRank(lastTag) + 1}]_vars

\* C1 (amended): with the ideal angle source the records of a run are tagged
\* AdjustingToPos5, Stationary1, AdjustingToNeg5, Stationary2,
\* AdjustingToPos10, Stationary3, AdjustingToNeg10, Stationary4, ReturnToZero,
\* Complete: the first record is AdjustingToPos5 (the initial zeroing writes
\* none), each record carries the previous tag or the next one, none is
\* skipped, the run is in Idle only after Complete records, and the run
\* does reach Idle.  With any source the tags never go backwards.
C1_PhaseOrder ==
  /\ [][(sensor' = "ideal" /\ HasRecord(emitted'))
          => Rank(emitted'[1].phase) \in {Rank(lastTag), Rank(lastTag) + 1}]_vars
  /\ [][HasRecord(emitted') => Rank(emitted'[1].phase) >= Rank(lastTag)]_vars
  /\ []((sensor = "ideal" /\ Idle) => lastTag = "Complete")
  /\ []((pc \in {"setup", "acq0", "check", "pulse", "stab", "acq1", "ret"}
          /\ op = "zero") => (lastTag = "none" /\ emitted = <<>>))
  /\ ((sensor = "ideal" /\ ~Idle) ~> (Idle \/ sensor # "ideal"))

C1_Witness ==
  /\ sensor = "ideal"
  /\ Idle
  /\ lastTag = "Complete"
  /\ busOn
  /\ lastValidData # NoData
  /\ hdrCount = 1

\* C2: a routine whose polls were all unusable returns after exactly 1000
\* reads, each followed by a 10 ms delay, as initial-read-failed, without
\* having issued an actuator command; and only such a routine returns that
\* way.
C2_Timeout ==
  /\ (pc \in {"acq0", "ret"} /\ allBad)
       => /\ opCmds = 0
          /\ motor = "stopped"
          /\ reads = timeoutCounter
          /\ waited = 10 * reads
  /\ (pc = "ret" /\ allBad)
       => (outcome = "initfail" /\ reads = 1000 /\ waited = 10000)
  /\ (outcome = "initfail") => (pc = "ret" /\ allBad)
  /\ (pc \in {"check", "pulse", "stab", "acq1", "burst"}) => ~allBad

C2_Witness ==
  /\ pc = "ret"
  /\ op = "pos5"
  /\ outcome = "initfail"
  /\ reads = 1000
  /\ pitch = Decode(4552)

\* target of a routine, in tenths of a degree
TargetTenths(o) ==
  CASE o = "pos5" -> 50 [] o = "neg5" -> -50
    [] o = "pos10" -> 100 [] o = "neg10" -> -100 [] OTHER -> 0

\* C3: a routine that ends as reached (neither initial-read-failed nor lost)
\* holds a last sample that is valid, within [-25, 25] and within
\* [T - 0.1, T + 0.1], and the actuator is stopped.
C3_ReachedInBand ==
  (outcome = "reached")
    => /\ pc \in {"ret", "burst"}
       /\ Usable(pitch)
       /\ Tenths(TargetTenths(op) - 1) <= pitch
       /\ pitch <= Tenths(TargetTenths(op) + 1)
       /\ motor = "stopped"
       /\ ~isMoving

C3_Witness ==
  /\ outcome = "reached"
  /\ pc = "ret"
  /\ op = "neg10"
  /\ opCmds = MaxCmds
  /\ sensor = "free"

\* C4: when a re-acquisition spends its 1000 attempts (10 ms apart) the
\* routine ends as lost with the actuator stopped, no drive command follows
\* inside the routine, and the sequencer goes on to the next phase of the
\* script (the dwell after an adjust routine, the final burst and Idle
\* after the return to zero, the run after the initial zeroing).
C4_LostSignal ==
  /\ []((outcome = "lost")
          => /\ pc \in {"ret", "burst"}
             /\ motor = "stopped" /\ ~isMoving
             /\ ~Usable(pitch)
             /\ reads = 1000 /\ waited = 10000)
  /\ [][(outcome = "lost") => (motor' = "stopped" /\ ~isMoving')]_vars
  /\ [][(pc = "ret" /\ outcome = "lost" /\ pc' # pc)
          => /\ op' = op
             /\ pc' = (IF op \in AdjustOps THEN "dwell" ELSE "loop")
             /\ testComplete' = (IF op = "zero" THEN FALSE
                                 ELSE IF op = "ret" THEN TRUE
                                 ELSE testComplete)]_vars
  /\ [][(pc = "burst" /\ outcome = "lost") => pc' \in {"burst", "ret"}]_vars
  /\ [][(pc = "dwell" /\ pc' # "dwell")
          => (pc' = "acq0" /\ Rank(AdjTag(op')) = Rank(AdjTag(op)) + 2)]_vars

C4_Witness ==
  /\ pc = "ret"
  /\ outcome = "lost"
  /\ op = "pos10"
  /\ lastTag = "AdjustingToPos10"

\* the routine that follows routine o in the script (setup's zeroing after a
\* reset)
ScriptNext(o) ==
  CASE o = "zero" -> "pos5" [] o = "pos5" -> "neg5" [] o = "neg5" -> "pos10"
    [] o = "pos10" -> "neg10" [] o = "neg10" -> "ret" [] OTHER -> "zero"

\* C5: once the angle source has stopped delivering usable samples (from the
\* start or from any later point), the sequencer still reaches Idle; whatever
\* the outcome of a routine, the routine that follows it is the next one of
\* the script, each adjust routine is followed by its dwell, and Idle is
\* entered only from the return to zero.
C5_SensorLossReachesIdle ==
  /\ (sensor = "lost") ~> Idle
  /\ [][op' # op => (pc' = "acq0" /\ op' = ScriptNext(op))]_vars
  /\ [][(pc = "ret" /\ pc' # "ret")
          => pc' = (IF op \in AdjustOps THEN "dwell" ELSE "loop")]_vars
  /\ [](Idle => op = "ret")

C5_Witness ==
  /\ sensor = "lost"
  /\ Idle
  /\ lastTag = "none"
  /\ hdrCount = 1

\* C6: a streamCSVData call writes exactly one record when its sample is
\* valid and within [-25, 25] and nothing otherwise, so the records written
\* over any number of calls are as many as the calls with such a sample:
\* half the calls, rounded down or up, when the samples alternate.
C6_OneRecordPerUsableSample ==
  /\ Usable(streamPitch)
       => /\ Len(emitted) = 1
          /\ emitted[1].kind = "record"
          /\ emitted[1].pitch = Fmt2(streamPitch)
          /\ emitted[1].phase = lastTag
  /\ ~Usable(streamPitch) => emitted = <<>>
  /\ hRecords = hValid
  /\ hAlt => hRecords \in {hCalls \div 2, (hCalls + 1) \div 2}

C6_Witness ==
  /\ hCalls = 5
  /\ hAlt
  /\ hRecords = 2
  /\ emitted = <<>>
  /\ streamPitch = Decode(-4552)

\* C7: lastValidData changes only when readCANData reads a frame of length
\* >= 6, and then all four fields come from that frame; after a poll with
\* no pending frame or with a shorter frame it is unchanged; in every case
\* the poll returns it.
C7_CacheAllOrNothing ==
  /\ canData # <<>> => canData[1] = lastValidData
  /\ (hMsg = <<>>) => lastValidData = hPrev
  /\ (hMsg # <<>> /\ hMsg[1].len < 6) => lastValidData = hPrev
  /\ (hMsg # <<>> /\ hMsg[1].len >= 6) => lastValidData = CanDecode(hMsg[1])

C7_Witness ==
  /\ hMsg # <<>>
  /\ hMsg[1].len = 5
  /\ hPrev # NoData
  /\ lastValidData = hPrev
  /\ canData = <<hPrev>>

\* value of a decimal digit string
IsDigits(d) == d # <<>> /\ \A i \in 1 .. Len(d) : \E k \in 1 .. 10 : DigitChar[k] = d[i]
DigitVal(c) == (CHOOSE k \in 1 .. 10 : DigitChar[k] = c) - 1
RECURSIVE ParseDec(_)
ParseDec(d) ==
  IF d = <<>> THEN 0
  ELSE ParseDec(SubSeq(d, 1, Len(d) - 1)) * 10 + DigitVal(d[Len(d)])
\* canonical decimal text: digits only, no leading zero
IsDecimalOf(d, n) ==
  IsDigits(d) /\ ParseDec(d) = n /\ (Len(d) > 1 => d[1] # "0")

\* C8: after a frame of length >= 6 is read, with third word w: 0xFFFF gives
\* Disabled, 0x8001 Open Circuit, 0x8002 Short Circuit, each with
\* externalSensorValid false; any other w gives externalSensorValid true and
\* the decimal text of w; fuelLevel and internalTemp are the decimal texts
\* of the first and second big-endian words.
C8_SentinelDecode ==
  (hMsg # <<>> /\ hMsg[1].len >= 6)
    => LET b == hMsg[1].data
           w == b[5] * 256 + b[6]
       IN /\ IsDecimalOf(lastValidData.fuelLevel, b[1] * 256 + b[2])
          /\ IsDecimalOf(lastValidData.internalTemp, b[3] * 256 + b[4])
          /\ (w = 65535) => (lastValidData.externalTemp = <<"Disabled">>
                             /\ ~lastValidData.externalSensorValid)
          /\ (w = 32769) => (lastValidData.externalTemp = <<"Open Circuit">>
                             /\ ~lastValidData.externalSensorValid)
          /\ (w = 32770) => (lastValidData.externalTemp = <<"Short Circuit">>
                             /\ ~lastValidData.externalSensorValid)
          /\ (w \notin {65535, 32769, 32770})
               => (IsDecimalOf(lastValidData.externalTemp, w)
                   /\ lastValidData.externalSensorValid)

C8_Witness ==
  /\ hMsg # <<>>
  /\ hMsg[1].len = 6
  /\ hMsg[1].data[5] = 128
  /\ hMsg[1].data[6] = 1
  /\ lastValidData.externalTemp = <<"Open Circuit">>
  /\ lastValidData.fuelLevel = <<"1", "0", "0">>

\* C9: in every run the header line is written exactly once and before any
\* record: no record is written while headersWritten is false, a run that
\* has written a record or has started its script has written one header,
\* and so has every run that reached Idle.
C9_HeaderOncePerRun ==
  /\ hdrCount <= 1
  /\ HasRecord(emitted) => (headersWritten /\ hdrCount = 1)
  /\ (lastTag # "none" /\ pc # "setup") => hdrCount = 1
  /\ (pc \in {"loop", "setup"} /\ testComplete) => hdrCount = 1
  /\ (op # "zero" /\ pc \notin {"setup", "loop", "stream", "can"})
       => (headersWritten /\ hdrCount = 1)

C9_Witness ==
  /\ resetFromRun
  /\ op = "pos5"
  /\ pc = "pulse"
  /\ HasRecord(emitted)
  /\ hdrCount = 1

\* C10 as stated: a reset takes effect only if it arrived while the
\* sequencer was in Idle; input that arrived during a run never causes a
\* restart.
C10_ResetOnlyFromIdle == ~resetFromRun

\* C10, what loop() does instead: the serial input is read only in Idle, one
\* line per poll; a line that arrives during a run stays pending and is read
\* once Idle is reached, so a reset sent during a run restarts the sequencer
\* after the run.  setup() is re-entered only by an Idle poll that reads
\* exactly reset; an Idle poll that reads any other line drops it and
\* changes nothing else.
C10_ResetReadInIdle ==
  /\ [][(serialIn' # serialIn /\ Len(serialIn') <= Len(serialIn))
          => (Idle /\ serialIn # <<>> /\ serialIn' = Tail(serialIn))]_vars
  /\ [][(pc' = "setup" /\ pc # "setup")
          => (Idle /\ serialIn # <<>> /\ Head(serialIn).text = "reset"
              /\ serialIn' = Tail(serialIn))]_vars
  /\ [][(Idle /\ serialIn # <<>> /\ serialIn' = Tail(serialIn))
          => IF Head(serialIn).text = "reset"
             THEN pc' = "setup"
             ELSE UNCHANGED <<progVars, lastValidData, canRx, hdrCount>>]_vars

C10_Witness ==
  /\ pc = "setup"
  /\ testComplete
  /\ resetFromRun
  /\ serialIn # <<>>

\* C11: setup() is re-entered from Idle only by a poll that reads reset, and
\* Idle is left in no other way; setup() stops the actuator and runs the
\* zeroing, during which streamCSVData is not called and nothing is written;
\* when it returns headersWritten and testComplete are false and startTime
\* is the current time; the next loop() iteration writes the header and
\* enters the +5 routine.
C11_ResetRerunsInit ==
  /\ [][(Idle /\ ~Idle')
          => (pc' = "setup" /\ serialIn # <<>>
              /\ Head(serialIn).text = "reset")]_vars
  /\ [][(pc = "setup" /\ pc' # "setup")
          => (pc' = "acq0" /\ op' = "zero" /\ motor' = "stopped"
              /\ ~isMoving' /\ ~headersWritten')]_vars
  /\ []((pc = "setup" \/ (op = "zero" /\ pc # "loop"))
          => (emitted = <<>> /\ streamArgs = <<>>))
  /\ [][(op = "zero" /\ pc = "ret" /\ pc' = "loop")
          => (~testComplete' /\ ~headersWritten' /\ sinceStart' = 0
              /\ hdrCount' = 0)]_vars
  /\ [][(pc = "loop" /\ ~testComplete /\ pc' # "loop")
          => (pc' = "acq0" /\ op' = "pos5" /\ emitted' = <<HeaderLine>>
              /\ headersWritten')]_vars

C11_Witness ==
  /\ timed
  /\ pc = "acq0"
  /\ op = "pos5"
  /\ emitted = <<HeaderLine>>
  /\ ~resetFromRun
  /\ canAge > STALE_MS
  /\ sinceStart = 0

\* the sequencer state a program position belongs to
Phase ==
  CASE pc = "dwell" -> StationaryTag(op)
    [] pc = "loop" /\ testComplete -> "Idle"
    [] pc = "loop" /\ ~testComplete -> "Init"
    [] pc = "setup" \/ op = "zero" -> "Init"
    [] OTHER -> AdjTag(op)

\* C16 as stated: at every transition between sequencer states, if no frame
\* has been seen for more than 60000 ms, the warning is written and the
\* staleness clock is reset.
C16_WarnAtEveryTransition ==
  [][(Phase' # Phase /\ timed /\ canAge > STALE_MS)
       => (warned' /\ canAge' = 0)]_vars

\* C16 (amended): loop() checks the staleness clock at five points only, on
\* return of each of the four adjust routines (before the dwell) and of
\* returnToZeroPitch (before Idle); there, if more than 60000 ms have passed
\* since a frame was read, one warning is written and the clock restarts
\* from 0; a warning is written nowhere else, the clock is otherwise
\* restarted only by readCANData reading a frame, and the step that checks goes
\* on to the dwell or to Idle whether it warns or not.
C16_StaleCheckAfterRoutines ==
  /\ [][(warned' /\ ~warned)
          => (pc = "ret" /\ op # "zero" /\ canAge > STALE_MS
              /\ canAge' = 0)]_vars
  /\ [][warned => (pc' = pc \/ ~warned')]_vars
  /\ [][(pc = "ret" /\ pc' # "ret" /\ op # "zero" /\ timed
         /\ canAge > STALE_MS) => warned']_vars
  /\ [](warned => ((pc = "dwell" /\ op \in AdjustOps) \/ (Idle /\ op = "ret")))
  /\ [][canAge' < canAge
          => (warned' \/ (streamArgs' # <<>> /\ canRx # <<>>
                          /\ canRx' = Tail(canRx)))]_vars
  /\ [][(pc = "ret" /\ pc' # "ret" /\ op # "zero")
          => (pc' = (IF op = "ret" THEN "loop" ELSE "dwell") /\ op' = op)]_vars

C16_Witness ==
  /\ warned
  /\ Idle
  /\ sensor = "lost"
  /\ lastValidData # NoData

\* C12: the actuator is always in exactly one of the states forward,
\* backward, stopped (isMoving telling whether it is driven), and a drive
\* command is only ever issued to a stopped actuator: between a forward and
\* a backward command, in either order, there is a stopMotor.
C12_NoReversalWithoutStop ==
  /\ [](motor \in {"forward", "backward", "stopped"})
  /\ [](isMoving <=> motor # "stopped")
  /\ [][(motor' # motor /\ motor' # "stopped") => motor = "stopped"]_vars
  /\ [][(pc = "check" /\ pc' = "pulse")
          => (motor = "stopped" /\ motor' \in {"forward", "backward"})]_vars
  /\ [][(pc = "pulse" /\ pc' # "pulse") => motor' = "stopped"]_vars

C12_Witness ==
  /\ pc = "pulse"
  /\ op = "pos5"
  /\ motor = "forward"
  /\ opCmds = MaxCmds
  /\ winElapsed > 0

\* the angle field read as a signed 16-bit little-endian integer
SignedLE(lo, hi) == IF hi >= 128 THEN (hi - 256) * 256 + lo ELSE hi * 256 + lo

\* C13: readPitch decodes the angle field as signed 16-bit little-endian
\* / 32768 * 180; an acquisition loop hands a sample to the band check and
\* the drive decision only if it is valid and within [-25, 25], and treats
\* any other sample, out-of-envelope like invalid, as a failed read (10 ms
\* delay, one attempt of the budget spent, no drive command); the streamer
\* writes no record for such a sample.
C13_EnvelopeFilter ==
  /\ []((hBuf # <<>> /\ Len(hBuf[1]) >= 11 /\ hBuf[1][1] = 85
         /\ hBuf[1][2] = 83)
          \* in tenths of a degree times 32768: raw / 32768 * 180 degrees
          => hRet = SignedLE(hBuf[1][3], hBuf[1][4]) * 180 * 10)
  /\ []((pc \in {"check", "pulse"}) => Usable(pitch))
  /\ [][(pc \in {"acq0", "acq1"} /\ pc' = "check") => Usable(pitch')]_vars
  /\ [][((AcquireInitial \/ Reacquire) /\ ~Usable(pitch'))
          => (timeoutCounter' = timeoutCounter + 1 /\ waited' = waited + 10
              /\ pc' \in {pc, "ret", "burst"}
              /\ motor' = "stopped" /\ motor = "stopped")]_vars
  /\ []((streamArgs # <<>> /\ ~Usable(streamPitch)) => emitted = <<>>)

C13_Witness ==
  /\ pc = "acq1"
  /\ op = "neg5"
  /\ pitch = Decode(4552)
  /\ timeoutCounter = 2
  /\ waited = 20

\* C14: when returnToZeroPitch has reached its final burst, the burst makes
\* 100 streamCSVData calls (so 100 records with an always-valid source).
C14_BurstOfHundred ==
  (pc = "ret" /\ op = "ret" /\ outcome # "initfail") => burstCalls = 100

\* what the burst does instead: its first iteration finds
\* millis() - lastDataTime = 0 and makes no call, the other 99 make one
\* each, tagged Complete/Zero, 10 ms apart
C14_BurstAsCoded ==
  /\ [](((pc = "ret" /\ op = "ret" /\ outcome # "initfail"))
          => burstCalls = BURST_COUNT - 1)
  /\ [][BurstStep
          => /\ burstI' = burstI + 1
             /\ streamArgs' = (IF burstI = 0 THEN <<>> ELSE <<"Complete", "Zero">>)
             /\ (sensor' = "ideal" /\ burstI > 0) => HasRecord(emitted')]_vars

C14_Witness ==
  /\ pc = "ret"
  /\ op = "ret"
  /\ sensor = "ideal"
  /\ outcome = "reached"
  /\ burstCalls = 99
  /\ HasRecord(emitted)

\* the K of the dwell that follows each adjust routine
DwellNumber(o) ==
  CASE o = "pos5" -> "1" [] o = "neg5" -> "2" [] o = "pos10" -> "3"
    [] o = "neg10" -> "4"

\* C15: during a dwell the actuator is stopped and no drive command is
\* issued; every streamCSVData call of the dwell is tagged StationaryK /
\* None, K being the dwell's number; the dwell ends when 10000 ms have
\* passed since its start, whatever the pitch source returns.
C15_DwellStationary ==
  /\ [](pc = "dwell" => (op \in AdjustOps /\ motor = "stopped" /\ ~isMoving))
  /\ [][(pc = "dwell") => (motor' = "stopped" /\ ~isMoving')]_vars
  /\ [][DwellStep
          => /\ (pc' = "dwell") <=> (winElapsed + 10 < 10000)
             /\ (pc' = "dwell")
                  => /\ winElapsed' = winElapsed + 10
                     /\ op' = op
                     /\ streamArgs' = <<"Stationary" \o DwellNumber(op), "None">>
             /\ (pc' # "dwell") => (pc' = "acq0" /\ streamArgs' = <<>>)]_vars
  /\ [][(pc # "dwell" /\ pc' = "dwell") => winElapsed' = 0]_vars
  /\ []((pc = "dwell" /\ emitted # <<>>)
          => (/\ emitted[1].phase = "Stationary" \o DwellNumber(op)
              /\ emitted[1].direction = "None"))

C15_Witness ==
  /\ pc = "dwell"
  /\ op = "neg10"
  /\ sensor = "lost"
  /\ winElapsed = 9990
  /\ streamArgs = <<"Stationary4", "None">>

\* the parts of a run the claim C17 names: Init zeroing, a controller's
\* sample-acquisition loop, a dwell, Idle
NamedComponents ==
  \/ op = "zero" /\ pc \in {"acq0", "check", "pulse", "stab", "acq1"}
  \/ pc \in {"acq0", "acq1"}
  \/ pc = "dwell"
  \/ Idle

C18_ShortBufferUntouched ==
  (hBuf # <<>> /\ Len(hBuf[1]) < 11) => (hRet = NoPitch /\ wtBuf = hBuf[1])

C18_Witness ==
  /\ hBuf # <<>>
  /\ Len(hBuf[1]) = 10
  /\ hBuf[1][1] = 85
  /\ hBuf[1][2] = 83
  /\ wtBuf = hBuf[1]
  /\ hRet = NoPitch

\* a full frame is buffered and its sync byte or its type byte is wrong
BadFrameRead ==
  /\ hBuf # <<>>
  /\ Len(hBuf[1]) >= 11
  /\ (hBuf[1][1] # 85 \/ hBuf[1][2] # 83)

\* C19 as stated: such a call returns the invalid signal and consumes the
\* whole frame, all 11 bytes of it.
C19_WholeFrameDiscarded ==
  BadFrameRead
    => (hRet = NoPitch /\ wtBuf = SubSeq(hBuf[1], 12, Len(hBuf[1])))

\* C19, amended: such a call returns the invalid signal; with a wrong sync
\* byte it consumes that one byte only, with a right sync byte and a wrong
\* type byte it consumes 10 bytes, leaving the frame's 11th byte buffered.
C19_BadFramePartlyConsumed ==
  BadFrameRead
    => /\ hRet = NoPitch
       /\ hBuf[1][1] # 85 => wtBuf = SubSeq(hBuf[1], 2, Len(hBuf[1]))
       /\ hBuf[1][1] = 85 => wtBuf = SubSeq(hBuf[1], 11, Len(hBuf[1]))

C19_Witness ==
  /\ BadFrameRead
  /\ hBuf[1][1] = 85
  /\ hBuf[1][2] = 81
  /\ Len(hBuf[1]) = 11
  /\ wtBuf = <<1>>

\* C20: with a pitch source that returns 8.0 degrees on its first three
\* polls and 10.05 degrees on every later poll, adjustToPosTenPitch issues
\* one motion pulse only (one moveMotorBackward, ended by one stopMotor, and
\* no moveMotorForward) and returns having reached the band with 10.05 as
\* its last sample, the streamer's polls in the pulse and stabilisation
\* windows included.
C20_ConvergenceScenario ==
  /\ [](motor # "forward")
  /\ [][(motor' # motor /\ motor' # "stopped")
          => (motor' = "backward" /\ opCmds = 0 /\ pitch * 10 = 80 * 32768 * 10)]_vars
  /\ [][(pc = "check" /\ pc' = "pulse") => (opCmds = 0 /\ polls = 1)]_vars
  /\ [][(pc = "pulse" /\ pc' # "pulse")
          => (pc' = "stab" /\ motor = "backward" /\ motor' = "stopped"
              /\ opCmds' = 2)]_vars
  /\ [](pc = "ret"
          => /\ outcome = "reached"
             /\ pitch * 100 = 1005 * 32768 * 10
             /\ motor = "stopped"
             /\ opCmds = Min(3, MaxCmds)
             /\ timeoutCounter = 0)
  /\ [](pc \in {"acq0", "check", "pulse", "stab", "acq1", "ret"})
  /\ [](outcome \in {"none", "reached"})

C20_Witness ==
  /\ pc = "ret"
  /\ op = "pos10"
  /\ sensor = "script"
  /\ outcome = "reached"
  /\ polls = ScriptPolls
  /\ streamPitch = NoPitch
  /\ lastTag = "AdjustingToPos10"

\* C21: a control cycle drives forward if the sample acquired last (valid
\* and within the envelope) is above target + 0.1 and backward if it is
\* below target - 0.1; the drive is held for the 200 ms pulse window, which
\* stopMotor ends; a 1000 ms stabilisation window with the actuator stopped
\* follows, and then the next acquisition.  Calls (and records) of the
\* pulse window are labelled Down for forward and Up for backward, those of
\* the stabilisation window Stabilizing.
C21_CycleShape ==
  /\ [][(pc = "check" /\ pc' = "pulse")
          => /\ Usable(pitch)
             /\ pitch' = pitch
             /\ motor' \in {"forward", "backward"}
             /\ (pitch > Tenths(TargetTenths(op) + 1)) => motor' = "forward"
             /\ (pitch < Tenths(TargetTenths(op) - 1)) => motor' = "backward"
             /\ \/ pitch > Tenths(TargetTenths(op) + 1)
                \/ pitch < Tenths(TargetTenths(op) - 1)]_vars
  /\ [](pc = "pulse" => (motor # "stopped" /\ winElapsed < 200))
  /\ [][PulseStep
          => IF pc' = "pulse"
             THEN /\ motor' = motor
                  /\ pitch' = pitch
                  /\ winElapsed' = winElapsed + 10
                  /\ streamArgs' # <<>>
                  /\ streamArgs'[2] = (IF motor = "forward" THEN "Down" ELSE "Up")
             ELSE /\ pc' = "stab"
                  /\ motor' = "stopped"
                  /\ (op = "zero" /\ winElapsed = 0) \/ winElapsed = 190]_vars
  /\ [](pc = "stab" => (motor = "stopped" /\ winElapsed < 1000))
  /\ [][StabStep
          => IF pc' = "stab"
             THEN /\ winElapsed' = winElapsed + 10
                  /\ streamArgs' # <<>>
                  /\ streamArgs'[2] = "Stabilizing"
             ELSE /\ pc' = "acq1"
                  /\ (op = "zero" /\ winElapsed = 0) \/ winElapsed = 990]_vars
  /\ []((pc = "pulse" /\ emitted # <<>>)
          => emitted[1].direction = (IF motor = "forward" THEN "Down" ELSE "Up"))
  /\ []((pc = "stab" /\ emitted # <<>>) => emitted[1].direction = "Stabilizing")

C21_Witness ==
  /\ pc = "pulse"
  /\ op = "neg5"
  /\ motor = "forward"
  /\ winElapsed = 190
  /\ emitted # <<>>
  /\ emitted[1].direction = "Down"
  /\ emitted[1].phase = "AdjustingToNeg5"

\* C22: the actuator is driven (and isMoving true) only inside a pulse
\* window; it is stopped in every acquisition loop, stabilisation window,
\* dwell, in the final burst, on return from every routine (the
\* initial-read-failed return included) and in Idle, where a step neither
\* moves the actuator nor samples.
C22_MovingOnlyInPulse ==
  /\ []((isMoving \/ motor # "stopped") => pc = "pulse")
  /\ []((pc \in {"acq0", "acq1", "stab", "dwell", "burst", "ret"} \/ Idle)
          => (~isMoving /\ motor = "stopped"))
  /\ [](pc = "pulse" => (isMoving /\ motor # "stopped"))
  /\ [][(Idle /\ Step)
          => /\ motor' = "stopped"
             /\ ~isMoving'
             /\ pitch' = pitch
             /\ streamArgs' = <<>>
             /\ emitted' = <<>>
             /\ polls' = polls
             /\ (pc' = "loop" \/ pc' = "setup")]_vars

C22_Witness ==
  /\ pc = "ret"
  /\ op = "neg10"
  /\ outcome = "initfail"
  /\ timeoutCounter = 1000
  /\ motor = "stopped"
  /\ ~isMoving

\* the last program step wrote a status line on Serial1 (it wrote a record
\* whose elapsedTime is in the first 10 ms of a 1000 ms window)
StatusLine ==
  /\ timed
  /\ emitted # <<>>
  /\ emitted[1].kind = "record"
  /\ StatusDue(emitted[1].timeMS)

\* a step that calls streamCSVData
StreamerCalled == Step /\ streamArgs' # <<>>

\* C23: two consecutive streamCSVData calls of a run are at least 10 ms
\* apart, whichever windows they belong to; a record carries the time of
\* its call, so the elapsedMs of consecutive records grow by at least 10,
\* and two consecutive calls never both fall in the status slot of the same
\* 1000 ms window.
C23_CallsTenApart ==
  /\ [][(StreamerCalled /\ lastCallMs >= 0)
          => lastCallMs' - lastCallMs >= 10]_vars
  /\ [][StreamerCalled => (lastCallMs' >= 10 /\ lastCallMs' < MaxElapsed)]_vars
  /\ [][(StreamerCalled /\ emitted' # <<>>)
          => (emitted'[1].kind = "record" /\ emitted'[1].timeMS = lastCallMs')]_vars
  /\ [][(lastCallMs' # lastCallMs) => (StreamerCalled \/ (Step /\ pc = "setup"))]_vars
  /\ [][(StreamerCalled /\ lastCallMs >= 0 /\ lastCallMs % 1000 < 10
          /\ lastCallMs' % 1000 < 10)
          => lastCallMs' \div 1000 > lastCallMs \div 1000]_vars
  /\ [](StatusLine => (lastCallMs = emitted[1].timeMS /\ lastCallMs % 1000 < 10))

C23_Witness ==
  /\ timed
  /\ sensor = "ideal"
  /\ pc = "pulse"
  /\ op = "neg5"
  /\ winElapsed = 10
  /\ emitted # <<>>
  /\ emitted[1].timeMS = lastCallMs
  /\ lastCallMs > 10000

\* the sample is within 0.1 degree of routine o's target
InBand(o, p) ==
  /\ p >= Tenths(TargetTenths(o) - 1)
  /\ p <= Tenths(TargetTenths(o) + 1)

\* inside a controller routine's loops
InRoutine == pc \in {"acq0", "check", "pulse", "stab", "acq1"}

\* C24: a routine leaves its loops only when an acquisition has spent its
\* 1000 attempts or the acquired sample is inside the band; there is no
\* bound on the cycles, so with a source whose every sample is valid, within
\* the envelope and outside the band, the routine starts a new pulse again
\* and again, never returns, the sequencer reaches neither the next phase
\* nor Idle, and a reset line sent by the operator is never read.
C24_NoCycleBound ==
  /\ [][(InRoutine /\ ~InRoutine')
          => /\ pc' \in {"ret", "burst"}
             /\ op' = op
             /\ \/ outcome' \in {"initfail", "lost"} /\ timeoutCounter' = 1000
                \/ outcome' = "reached" /\ Usable(pitch') /\ InBand(op, pitch')]_vars
  /\ [](sensor \in StuckKinds
          => (InRoutine /\ ~Idle /\ outcome = "none" /\ timeoutCounter = 0))
  /\ []((sensor \in StuckKinds /\ pc \in {"check", "pulse", "stab"})
          => (Usable(pitch) /\ ~InBand(op, pitch)))
  /\ [][(sensor \in StuckKinds)
          => (op' = op /\ Len(serialIn') >= Len(serialIn))]_vars
  /\ []<>(sensor \notin StuckKinds \/ (pc = "pulse" /\ winElapsed = 0))
  /\ []<>(sensor \notin StuckKinds \/ pc = "check")

C24_Witness ==
  /\ sensor = "swing"
  /\ op = "pos5"
  /\ pc = "pulse"
  /\ motor = "backward"
  /\ opCmds = MaxCmds
  /\ serialIn # <<>>
  /\ Head(serialIn).text = "reset"

\* C25 as stated: on a bus that delivers only too-short messages, at least
\* one every 60 s, the staleness warning is never written.
C25_ShortFramesNeverWarn == ~warned

\* C25, amended: every readCANData call that finds a message reads it and
\* stamps lastCanMsgTime, too short or not, and a too-short message leaves
\* the cache as it was, so the records keep the cached values; as
\* readCANData runs only inside streamCSVData, on such a bus the warning is
\* written only at a check that no streamCSVData call has preceded since
\* setup() was entered, after more than 60 s without one.
C25_ShortFramesStamp ==
  /\ [][(StreamerCalled /\ canRx # <<>>)
          => /\ Head(canRx).len < 6
             /\ canRx' = Tail(canRx)
             /\ canAge' <= 10
             /\ lastValidData' = lastValidData]_vars
  /\ [](lastValidData = NoData)
  /\ []((emitted # <<>> /\ emitted[1].kind = "record")
          => (/\ emitted[1].fuelLevel = NoData.fuelLevel
              /\ emitted[1].internalTemp = NoData.internalTemp
              /\ emitted[1].externalTemp = NoData.externalTemp))
  /\ [][(warned' /\ ~warned)
          => (canAge > 60000 /\ lastCallMs = -1 /\ canRx # <<>>
              /\ pc = "ret" /\ op = "pos5")]_vars
  /\ []((lastCallMs >= 0 /\ ~Idle /\ pc # "setup") => canAge <= 11010)

C25_Witness ==
  /\ timed
  /\ sensor = "ideal"
  /\ pc = "dwell"
  /\ streamArgs # <<>>
  /\ canRx = <<>>
  /\ canAge = 0
  /\ emitted # <<>>
  /\ emitted[1].fuelLevel = NoData.fuelLevel
  /\ op = "neg10"
  /\ sinceStart > 10000

\* bytes the last readPitch call took from the buffer
Consumed == Len(hBuf[1]) - Len(wtBuf)

\* C26: a readPitch call takes bytes from the front of the buffer only: none
\* with fewer than 11 buffered; with 11 or more, exactly 1 if the first byte
\* is not 0x55 and exactly 10 if it is, whatever the type byte; so after a
\* successful decode the frame's 11th byte is the first byte of the buffer.
C26_ByteConsumption ==
  (hBuf # <<>>)
    => /\ wtBuf = SubSeq(hBuf[1], Consumed + 1, Len(hBuf[1]))
       /\ Consumed = (IF Len(hBuf[1]) < 11 THEN 0
                      ELSE IF hBuf[1][1] # 85 THEN 1 ELSE 10)
       /\ (hRet # NoPitch)
            => (/\ Len(hBuf[1]) >= 11
                /\ hBuf[1][1] = 85
                /\ hBuf[1][2] = 83
                /\ wtBuf # <<>>
                /\ wtBuf[1] = hBuf[1][11])

C26_Witness ==
  /\ hBuf # <<>>
  /\ hRet = Decode(910)
  /\ Len(hBuf[1]) = 12
  /\ hBuf[1][11] = 1
  /\ wtBuf = <<1, 85>>
=============================================================================
